---- MODULE Spec2Model ----
(***************************************************************************)
(* Model of the junoload workload engine (src/test/drv/junoload/tsteng.go):*)
(* the key synthesizer, the skew sampler, the RecordStore, the fixed-rate  *)
(* controller and TestEngine.Run with its restoration pass.                *)
(*                                                                         *)
(* One behaviour exercises one of four drivers, fixed in the initial       *)
(* state by the variable `driver`:                                         *)
(*   "store"  - a RecordStore under arbitrary Add / Get / Take calls;      *)
(*   "engine" - TestEngine.Run over a configured request sequence;         *)
(*   "rate"   - checkSpeedDelayIfNeeded applied to bounded inputs;         *)
(*   "key"    - NewRandomKey and newTestKey applied to bounded inputs.     *)
(***************************************************************************)
EXTENDS Integers, Sequences, FiniteSets, TLC

(***************************************************************************)
(* Bounds of the model.  MaxDeletes, ErrLimit and Second stand for program *)
(* quantities too large to enumerate (10000 deletes, 100 errors, 10^9 ns   *)
(* per second); the model is parametric in them and they are scaled down.  *)
(***************************************************************************)
\* tsteng.go:46 sets MaxDeletes = 10000; scaled (must stay >= 4, as in the
\* program numKeys >> 2 is never 0 when numKeys >= MaxDeletes).
MaxDeletes == 4
\* tsteng.go:299 aborts when errCount > 100; scaled.
ErrLimit == 3
\* time.Second in clock ticks of the rate controller (10^9 ns in the program).
Second == 12
\* largest numKeys a store is constructed with
MaxNumKeys == 6
\* number of keys newTestKey hands out in one behaviour
MaxUuid == 2
\* last value of the unix clock (seconds)
MaxTime == 1
\* largest time-to-live of a created record (seconds)
MaxTTL == 1
\* statistics stop growing here: no further operation is issued
MaxRequests == 6
\* rate controller inputs
MaxRate == 5
MaxNum == 11
MaxDur == 30
\* largest index the key driver hands to NewRandomKey
MaxIndex == 14

VARIABLES
    driver,       \* which driver this behaviour runs
    recStore,     \* TestEngine.recStore / the RecordStore under test
    now,          \* time.Now().Unix() as last read
    uuidSeq,      \* number of keys newTestKey has produced
    lastCall,     \* store driver: the last RecordStore call and its result
    taken,        \* store driver: keys returned by successful Take calls, in order
    reqSequence,  \* TestEngine.reqSequence.items
    pc,           \* position of Run
    itemIdx,      \* index of the current item of the range loop (1-based)
    reqIdx,       \* i of the inner loop
    errCount,     \* errCount of Run
    streak,       \* recorded operations that failed in a row, up to the last one recorded
    stats,        \* e.stats: per request type, requests and errors recorded
    movingStats,  \* e.movingStats
    clientCalls,  \* calls made on e.client during the Running phase, per type
    clientFailed, \* those of them that returned an error, per type
    restoreLog,   \* Create calls made by restoreData: <<key, failed>>, in order
    clientSucceeded, \* some call on e.client has returned without error
    chDone,       \* a value is available on chDone
    wgDone,       \* number of wg.Done() calls made by Run
    rate,         \* rate driver: inputs and result of checkSpeedDelayIfNeeded
    keygen        \* key driver: indices drawn and the keys built from them

vars == <<driver, recStore, now, uuidSeq, lastCall, taken, reqSequence, pc,
          itemIdx, reqIdx, errCount, streak, stats, movingStats, clientCalls, clientFailed,
          restoreLog, clientSucceeded, chDone, wgDone, rate, keygen>>

storeVars == <<recStore, now, uuidSeq, lastCall, taken>>
engineVars == <<reqSequence, pc, itemIdx, reqIdx, errCount, streak, stats, movingStats,
                clientCalls, clientFailed, restoreLog, clientSucceeded, chDone, wgDone>>

(***************************************************************************)
(* Request types (tsteng.go:37-44)                                         *)
(***************************************************************************)
kRequestTypeCreate == 0
kRequestTypeGet == 1
kRequestTypeUpdate == 2
kRequestTypeSet == 3
kRequestTypeDestroy == 4
kNumRequestTypes == 5

RequestTypes == kRequestTypeCreate .. kRequestTypeDestroy

(***************************************************************************)
(* Keys: 16 bytes, as a sequence of 16 numbers in 0..255.                  *)
(***************************************************************************)
Min(a, b) == IF a < b THEN a ELSE b

RECURSIVE Pow(_, _)
Pow(b, e) == IF e = 0 THEN 1 ELSE b * Pow(b, e - 1)

\* binary.BigEndian.PutUint32: the four bytes of v, most significant first
PutUint32(v) ==
    << (v \div 16777216) % 256, (v \div 65536) % 256, (v \div 256) % 256, v % 256 >>

\* uint32(((int64(s+1)*25214903917 + 11) >> 5) & 0x7fffffff): bits 5..35 of the
\* product, computed on 12-bit limbs (25214903917 = 0x5DE ECE 66D) so that no
\* intermediate value leaves 32 bits.
Scramble(s) ==
    LET a  == s + 1
        a0 == a % 4096
        a1 == (a \div 4096) % 4096
        a2 == (a \div 16777216) % 4096
        c0 == a0 * 1645 + 11
        c1 == a0 * 3790 + a1 * 1645 + (c0 \div 4096)
        c2 == a0 * 1502 + a1 * 3790 + a2 * 1645 + (c1 \div 4096)
    IN  ((c0 % 4096) \div 32) + (c1 % 4096) * 128 + (c2 % 4096) * 524288

\* mutant of NewRandomKey: the 0xff marker written at key[8:]
NewRandomKey_m(s) ==
    PutUint32(Scramble(s)) \o PutUint32(s) \o PutUint32(255) \o <<0, 0, 0, 0>>

NewRandomKey(s) ==
    PutUint32(Scramble(s)) \o PutUint32(s) \o <<0, 0, 0, 0>> \o PutUint32(255)

\* b | 0x2 on a byte
Or2(b) == IF (b \div 2) % 2 = 1 THEN b ELSE b + 2

\* byte 11 of the node field of a version 1 UUID, as the host may have it
NodeBytes == {0, 255}

\* uuid.NewV1().Bytes() with key[11] |= 0x2.  u is the UUID's timestamp (one per
\* call, never repeated), n11 its byte 11.
newTestKey(u, n11) ==
    PutUint32(u) \o <<0, 0, 16, 0>> \o <<128, 0, 0, Or2(n11)>> \o <<0, 0, 0, 1>>

\* int(float64(n)*math.Log(m)/math.Log(float64(n+1))) for 1 <= m <= n: the largest
\* j with (n+1)^j <= m^n
LogFloor(n, m) ==
    CHOOSE j \in 0 .. n :
        /\ Pow(n + 1, j) <= Pow(m, n)
        /\ \A j2 \in (j + 1) .. n : Pow(n + 1, j2) > Pow(m, n)

\* expRand(n), with r the value rand.Intn(n) returned
expRand(n, r) == n - 1 - LogFloor(n, r + 1)

(***************************************************************************)
(* Record and RecordStore                                                  *)
(***************************************************************************)
NoErr == "nil"
NilCtx == [present |-> FALSE, creationTime |-> 0, timeToLive |-> 0]
Ctx(ct, ttl) == [present |-> TRUE, creationTime |-> ct, timeToLive |-> ttl]
ZeroRecord == [key |-> <<>>, ctx |-> NilCtx]

NewRecordStore(n, od, og) ==
    [records |-> <<>>, numKeys |-> n, currGet |-> 0, nextDelete |-> 0,
     offsetDel |-> od, offsetGet |-> og, LastDelete |-> FALSE]

\* mutant of isExpired: the nil context not tested
isExpired_m(rec, t) == rec.ctx.creationTime + rec.ctx.timeToLive < t

\* Record.isExpired, with t the value of time.Now().Unix()
isExpired(rec, t) ==
    IF ~rec.ctx.present THEN FALSE
    ELSE rec.ctx.creationTime + rec.ctx.timeToLive < t

\* append(s[:index], s[index+1:]...), index 0-based
RemoveAt(seq, index) ==
    SubSeq(seq, 1, index) \o SubSeq(seq, index + 2, Len(seq))

\* mutant of Add: the mode not tested
Add_m(s, rec) == [s EXCEPT !.records = Append(@, rec)]

Add(s, rec) ==
    IF s.numKeys > 0 THEN s
    ELSE [s EXCEPT !.records = Append(@, rec)]

empty(s) == Len(s.records) = 0 /\ s.numKeys = 0

\* mutant of endOfDelete: the MaxDeletes bound left out
endOfDelete_m(s) == s.numKeys > 0 /\ s.nextDelete >= s.numKeys

endOfDelete(s) ==
    s.numKeys > 0 /\ (s.nextDelete >= s.numKeys \/ s.nextDelete >= MaxDeletes)

\* mutant of takeRecord: the cursor advanced before the key is derived
takeRecord_m1(s, index) ==
    IF s.numKeys > 0 THEN
        LET rec == [key |-> NewRandomKey(s.offsetDel + s.nextDelete + 1), ctx |-> NilCtx]
        IN  IF s.numKeys > 0 /\ (s.nextDelete >= s.numKeys \/ s.nextDelete >= MaxDeletes)
            THEN [s |-> s, rec |-> rec, err |-> "no more record for destroy"]
            ELSE [s |-> [s EXCEPT !.nextDelete = @ + 1], rec |-> rec, err |-> NoErr]
    ELSE IF Len(s.records) = 0 THEN
        [s |-> s, rec |-> ZeroRecord, err |-> "no record in the store"]
    ELSE
        [s |-> [s EXCEPT !.records = RemoveAt(@, index)],
         rec |-> s.records[index + 1], err |-> NoErr]

\* mutant of takeRecord: the last record removed instead of the one picked
takeRecord_m2(s, index) ==
    IF s.numKeys > 0 THEN
        LET rec == [key |-> NewRandomKey(s.offsetDel + s.nextDelete), ctx |-> NilCtx]
        IN  IF s.numKeys > 0 /\ (s.nextDelete >= s.numKeys \/ s.nextDelete >= MaxDeletes)
            THEN [s |-> s, rec |-> rec, err |-> "no more record for destroy"]
            ELSE [s |-> [s EXCEPT !.nextDelete = @ + 1], rec |-> rec, err |-> NoErr]
    ELSE IF Len(s.records) = 0 THEN
        [s |-> s, rec |-> ZeroRecord, err |-> "no record in the store"]
    ELSE
        [s |-> [s EXCEPT !.records = RemoveAt(@, Len(s.records) - 1)],
         rec |-> s.records[index + 1], err |-> NoErr]

\* takeRecord, with index the value rand.Intn(sz) returned (dynamic mode)
takeRecord(s, index) ==
    IF s.numKeys > 0 THEN
        LET rec == [key |-> NewRandomKey(s.offsetDel + s.nextDelete), ctx |-> NilCtx]
        IN  IF endOfDelete(s)
            THEN [s |-> s, rec |-> rec, err |-> "no more record for destroy"]
            ELSE [s |-> [s EXCEPT !.nextDelete = @ + 1], rec |-> rec, err |-> NoErr]
    ELSE IF Len(s.records) = 0 THEN
        [s |-> s, rec |-> ZeroRecord, err |-> "no record in the store"]
    ELSE
        [s |-> [s EXCEPT !.records = RemoveAt(@, index)],
         rec |-> s.records[index + 1], err |-> NoErr]

\* mutant of getCount: the width narrowed only above MaxDeletes
getCount_m(s) == IF s.numKeys > MaxDeletes THEN s.numKeys \div 4 ELSE s.numKeys

\* the width getRecord samples over in preloaded mode
getCount(s) == IF s.numKeys >= MaxDeletes THEN s.numKeys \div 4 ELSE s.numKeys

\* mutant of getRecord: in dynamic mode the record returned is removed
getRecord_m(s, r, t) ==
    IF s.numKeys > 0 THEN
        LET k == expRand(getCount(s), r)
        IN  [s |-> [s EXCEPT !.currGet = k],
             rec |-> [key |-> NewRandomKey(s.offsetGet + k), ctx |-> NilCtx],
             err |-> NoErr]
    ELSE IF Len(s.records) = 0 THEN
        [s |-> s, rec |-> ZeroRecord, err |-> "no record in the store"]
    ELSE
        LET rec == s.records[r + 1]
        IN  [s |-> [s EXCEPT !.records = RemoveAt(@, r)],
             rec |-> rec,
             err |-> IF isExpired(rec, t) THEN "expired" ELSE NoErr]

\* getRecord, with r the value rand.Intn returned and t the clock isExpired reads
getRecord(s, r, t) ==
    IF s.numKeys > 0 THEN
        LET k == expRand(getCount(s), r)
        IN  [s |-> [s EXCEPT !.currGet = k],
             rec |-> [key |-> NewRandomKey(s.offsetGet + k), ctx |-> NilCtx],
             err |-> NoErr]
    ELSE IF Len(s.records) = 0 THEN
        [s |-> s, rec |-> ZeroRecord, err |-> "no record in the store"]
    ELSE
        LET rec == s.records[r + 1]
        IN  IF isExpired(rec, t)
            THEN [s |-> [s EXCEPT !.records = RemoveAt(@, r)],
                  rec |-> rec, err |-> "expired"]
            ELSE [s |-> s, rec |-> rec, err |-> NoErr]

\* the values rand.Intn may return in getRecord / takeRecord
GetRands(s) ==
    IF s.numKeys > 0 THEN 0 .. (getCount(s) - 1) ELSE 0 .. (Len(s.records) - 1)
TakeRands(s) ==
    IF s.numKeys > 0 THEN {0} ELSE 0 .. (Len(s.records) - 1)

\* the clock values a read of time.Now().Unix() may give after it read t
Clock(t) == {t, Min(t + 1, MaxTime)}

\* One result of a Get or Take call: the store after it, the record and error
\* returned, the clock as last read, the records discarded as expired on the way
\* and the number of loop iterations made.
Result(s, rec, err, t, disc, n) ==
    [s |-> s, rec |-> rec, err |-> err, t |-> t, discarded |-> disc, iters |-> n]

\* RecordStore.Get from the loop head: every result the random choices and the
\* clock allow.
RECURSIVE GetLoop(_, _, _, _, _)
GetLoop(s, rec, t, disc, n) ==
    IF empty(s) THEN { Result(s, rec, "no record", t, disc, n) }
    ELSE UNION { LET g == getRecord(s, r, t2)
                 IN  IF g.err = NoErr
                     THEN { Result(g.s, g.rec, NoErr, t2, disc, n + 1) }
                     ELSE GetLoop(g.s, g.rec, t2,
                                  IF g.err = "expired" THEN Append(disc, g.rec) ELSE disc,
                                  n + 1)
                 : r \in GetRands(s), t2 \in Clock(t) }

Get(s, t) == GetLoop(s, ZeroRecord, t, <<>>, 0)

\* RecordStore.Take from the loop head
RECURSIVE TakeLoop(_, _, _, _, _)
TakeLoop(s, rec, t, disc, n) ==
    IF empty(s) \/ endOfDelete(s)
    THEN { Result(s, rec, "no unexpired record", t, disc, n) }
    ELSE UNION { LET tr == takeRecord(s, r)
                 IN  IF tr.err = NoErr /\ ~isExpired(tr.rec, t2)
                     THEN { Result(IF endOfDelete(tr.s)
                                   THEN [tr.s EXCEPT !.LastDelete = TRUE]
                                   ELSE tr.s,
                                   tr.rec, NoErr, t2, disc, n + 1) }
                     ELSE TakeLoop(tr.s, tr.rec, t2,
                                   IF tr.err = NoErr THEN Append(disc, tr.rec) ELSE disc,
                                   n + 1)
                 : r \in TakeRands(s), t2 \in Clock(t) }

Take(s, t) == TakeLoop(s, ZeroRecord, t, <<>>, 0)

(***************************************************************************)
(* Collaborators outside tsteng.go: the store client, the value generator  *)
(* and Statistics, modelled at their interface.                            *)
(***************************************************************************)
\* what a call on e.client may return as its error
ClientErrs == {NoErr, "client error"}

\* the context client.Create returns for a record created at clock t with a
\* time-to-live from rdgen.getTTL()
ClientCtxs(t) == { Ctx(t, ttl) : ttl \in 0 .. MaxTTL }

NewStatistics == [ty \in RequestTypes |-> [n |-> 0, errs |-> 0]]

\* Statistics.Put(type, elapsed, err)
Put(st, ty, err) ==
    [st EXCEPT ![ty] = [n |-> @.n + 1, errs |-> @.errs + (IF err = NoErr THEN 0 ELSE 1)]]

\* Statistics.GetNumRequests()
GetNumRequests(st) ==
    st[kRequestTypeCreate].n + st[kRequestTypeGet].n + st[kRequestTypeUpdate].n
    + st[kRequestTypeSet].n + st[kRequestTypeDestroy].n

NumErrors(st) ==
    st[kRequestTypeCreate].errs + st[kRequestTypeGet].errs + st[kRequestTypeUpdate].errs
    + st[kRequestTypeSet].errs + st[kRequestTypeDestroy].errs

(***************************************************************************)
(* Handlers of TestEngine.  Each gives every outcome the random choices,   *)
(* the clock and the client allow: the store after it, the error returned, *)
(* whether e.client was called and with which error, the clock and the     *)
(* number of keys newTestKey has produced.                                 *)
(***************************************************************************)
Outcome(s, err, called, cerr, t, u) ==
    [s |-> s, err |-> err, called |-> called, cerr |-> cerr, t |-> t, u |-> u]

invokeCreate(s, t, u) ==
    IF s.numKeys > 0 THEN { Outcome(s, NoErr, FALSE, NoErr, t, u) }
    ELSE IF u >= MaxUuid THEN {}
    ELSE { Outcome(IF cerr = NoErr
                   THEN Add(s, [key |-> newTestKey(u + 1, n11), ctx |-> ctx])
                   ELSE s,
                   cerr, TRUE, cerr, t, u + 1)
           : cerr \in ClientErrs, n11 \in NodeBytes, ctx \in ClientCtxs(t) }

\* invokeGet, invokeUpdate and invokeSet differ in the client method only
invokeOnGet(s, t, u) ==
    UNION { IF g.err = NoErr
            THEN { Outcome(g.s, cerr, TRUE, cerr, g.t, u) : cerr \in ClientErrs }
            ELSE { Outcome(g.s, g.err, FALSE, NoErr, g.t, u) }
            : g \in Get(s, t) }

invokeGet(s, t, u) == invokeOnGet(s, t, u)
invokeUpdate(s, t, u) == invokeOnGet(s, t, u)
invokeSet(s, t, u) == invokeOnGet(s, t, u)

invokeDestroy(s, t, u) ==
    IF endOfDelete(s) THEN { Outcome(s, NoErr, FALSE, NoErr, t, u) }
    ELSE UNION { IF k.err = NoErr
                 THEN { Outcome(k.s, cerr, TRUE, cerr, k.t, u) : cerr \in ClientErrs }
                 ELSE { Outcome(k.s, k.err, FALSE, NoErr, k.t, u) }
                 : k \in Take(s, t) }

\* e.invokeFuncs[ty]() for the table Init builds
invokeFuncs(ty, s, t, u) ==
    CASE ty = kRequestTypeCreate  -> invokeCreate(s, t, u)
      [] ty = kRequestTypeGet     -> invokeGet(s, t, u)
      [] ty = kRequestTypeUpdate  -> invokeUpdate(s, t, u)
      [] ty = kRequestTypeSet     -> invokeSet(s, t, u)
      [] ty = kRequestTypeDestroy -> invokeDestroy(s, t, u)

\* how invoke(ty) ends: by calling the handler, in glog.Exitf, or in the index
\* out of range of e.invokeFuncs[ty]
invokeKind(ty) ==
    IF ty > kNumRequestTypes THEN "exit"
    ELSE IF ty >= kNumRequestTypes THEN "panic"
    ELSE "call"

(***************************************************************************)
(* Rate controller                                                         *)
(***************************************************************************)
MinRequests == 10

\* mutant of checkSpeedDelayIfNeeded: the sign of delta not tested
checkSpeedDelayIfNeeded_m(num, r, dur) ==
    IF num < 10 THEN [sleeps |-> FALSE, delta |-> 0]
    ELSE [sleeps |-> TRUE, delta |-> (Second \div r) * num - dur]

\* checkSpeedDelayIfNeeded: num = e.stats.GetNumRequests(), r = e.numReqPerSecond,
\* dur = now.Sub(e.stats.tmStart).  Gives whether time.Sleep is called and with
\* which duration.
checkSpeedDelayIfNeeded(num, r, dur) ==
    IF num < MinRequests THEN [sleeps |-> FALSE, delta |-> 0]
    ELSE LET expectedDur == (Second \div r) * num
             delta == expectedDur - dur
         IN  IF delta > 0 THEN [sleeps |-> TRUE, delta |-> delta]
             ELSE [sleeps |-> FALSE, delta |-> 0]

(***************************************************************************)
(* Initial states                                                          *)
(***************************************************************************)
Item(ty, n) == [reqType |-> ty, numRequests |-> n]

\* The request sequences a behaviour may be configured with.  The last two name
\* a request type outside the known five.
Sequences ==
    { << Item(kRequestTypeCreate, 1), Item(kRequestTypeGet, 1), Item(kRequestTypeDestroy, 1) >>,
      << Item(kRequestTypeCreate, 2), Item(kRequestTypeUpdate, 1), Item(kRequestTypeDestroy, 2) >>,
      << Item(kRequestTypeGet, 1), Item(kRequestTypeSet, 1) >>,
      << Item(kRequestTypeDestroy, 2) >>,
      << Item(kRequestTypeCreate, 1) >>,
      << Item(kRequestTypeSet, 0) >>,
      << Item(kNumRequestTypes, 1) >>,
      << Item(kNumRequestTypes + 1, 1) >> }

\* offsetDel and offsetGet of a constructed store
Offsets == { <<0, 0>>, <<7, 2>> }

NoCall ==
    [op |-> "none", pre |-> NewRecordStore(0, 0, 0), preNow |-> 0, arg |-> ZeroRecord,
     rec |-> ZeroRecord, err |-> NoErr, t |-> 0, discarded |-> <<>>, iters |-> 0]

\* the key driver before it has built its keys
NoKeys ==
    [i |-> 0, j |-> 0, u |-> 1, n11 |-> 0, done |-> FALSE,
     ki |-> <<>>, kj |-> <<>>, kt |-> <<>>]

NoRate == [num |-> 0, r |-> 1, dur |-> 0, done |-> FALSE, sleeps |-> FALSE, delta |-> 0]

InitIdle ==
    /\ reqSequence = <<>> /\ pc = "idle" /\ itemIdx = 1 /\ reqIdx = 0 /\ errCount = 0
    /\ streak = 0
    /\ stats = NewStatistics /\ movingStats = NewStatistics
    /\ clientCalls = [ty \in RequestTypes |-> 0]
    /\ clientFailed = [ty \in RequestTypes |-> 0]
    /\ restoreLog = <<>> /\ clientSucceeded = FALSE /\ chDone = FALSE /\ wgDone = 0

InitStore ==
    /\ driver = "store"
    /\ \E n \in 0 .. MaxNumKeys, o \in Offsets : recStore = NewRecordStore(n, o[1], o[2])
    /\ now = 0 /\ uuidSeq = 0 /\ lastCall = NoCall /\ taken = <<>>
    /\ InitIdle
    /\ rate = NoRate /\ keygen = NoKeys

\* Run is entered with the statistics fresh and the store as constructed
InitEngine ==
    /\ driver = "engine"
    /\ \E n \in 0 .. MaxNumKeys, o \in Offsets : recStore = NewRecordStore(n, o[1], o[2])
    /\ now = 0 /\ uuidSeq = 0 /\ lastCall = NoCall /\ taken = <<>>
    /\ reqSequence \in Sequences
    /\ pc = "item" /\ itemIdx = 1 /\ reqIdx = 0 /\ errCount = 0
    /\ streak = 0
    /\ stats = NewStatistics /\ movingStats = NewStatistics
    /\ clientCalls = [ty \in RequestTypes |-> 0]
    /\ clientFailed = [ty \in RequestTypes |-> 0]
    /\ restoreLog = <<>> /\ clientSucceeded = FALSE /\ chDone = FALSE /\ wgDone = 0
    /\ rate = NoRate /\ keygen = NoKeys

InitRate ==
    /\ driver = "rate"
    /\ recStore = NewRecordStore(0, 0, 0)
    /\ now = 0 /\ uuidSeq = 0 /\ lastCall = NoCall /\ taken = <<>>
    /\ InitIdle
    /\ \E num \in 0 .. MaxNum, r \in 1 .. MaxRate, dur \in 0 .. MaxDur :
           rate = [num |-> num, r |-> r, dur |-> dur, done |-> FALSE,
                   sleeps |-> FALSE, delta |-> 0]
    /\ keygen = NoKeys

\* two indices for NewRandomKey and one UUID for newTestKey
InitKeys ==
    /\ driver = "key"
    /\ recStore = NewRecordStore(0, 0, 0)
    /\ now = 0 /\ uuidSeq = 0 /\ lastCall = NoCall /\ taken = <<>>
    /\ InitIdle
    /\ rate = NoRate
    /\ \E i \in 0 .. MaxIndex, j \in 0 .. MaxIndex, u \in 1 .. MaxUuid, n11 \in NodeBytes :
           keygen = [NoKeys EXCEPT !.i = i, !.j = j, !.u = u, !.n11 = n11]

Init == InitStore \/ InitEngine \/ InitRate \/ InitKeys

(***************************************************************************)
(* The clock                                                               *)
(***************************************************************************)
Tick ==
    /\ driver \in {"store", "engine"}
    /\ pc \in {"idle", "item", "req", "restore"}
    /\ now < MaxTime
    /\ now' = now + 1
    /\ UNCHANGED <<driver, recStore, uuidSeq, lastCall, taken, engineVars, rate, keygen>>

(***************************************************************************)
(* Store driver: calls on the RecordStore, in any order                    *)
(***************************************************************************)
Call(op, arg, res) ==
    [op |-> op, pre |-> recStore, preNow |-> now, arg |-> arg, rec |-> res.rec,
     err |-> res.err, t |-> res.t, discarded |-> res.discarded, iters |-> res.iters]

\* the records a caller may hand to Add: a fresh key, with or without a context
AddRecords ==
    { [key |-> newTestKey(uuidSeq + 1, n11), ctx |-> ctx] :
        n11 \in NodeBytes,
        ctx \in {NilCtx} \cup { Ctx(ct, ttl) : ct \in 0 .. now, ttl \in 0 .. MaxTTL } }

StoreAdd ==
    /\ driver = "store"
    /\ uuidSeq < MaxUuid
    /\ \E rec \in AddRecords :
          /\ recStore' = Add(recStore, rec)
          /\ lastCall' = Call("Add", rec, Result(recStore, ZeroRecord, NoErr, now, <<>>, 0))
    /\ uuidSeq' = uuidSeq + 1
    /\ UNCHANGED <<driver, now, taken, engineVars, rate, keygen>>

StoreGet ==
    /\ driver = "store"
    /\ \E res \in Get(recStore, now) :
          /\ recStore' = res.s
          /\ now' = res.t
          /\ lastCall' = Call("Get", ZeroRecord, res)
    /\ UNCHANGED <<driver, uuidSeq, taken, engineVars, rate, keygen>>

StoreTake ==
    /\ driver = "store"
    /\ \E res \in Take(recStore, now) :
          /\ recStore' = res.s
          /\ now' = res.t
          /\ lastCall' = Call("Take", ZeroRecord, res)
          /\ taken' = IF res.err = NoErr THEN Append(taken, res.rec.key) ELSE taken
    /\ UNCHANGED <<driver, uuidSeq, engineVars, rate, keygen>>

(***************************************************************************)
(* Engine driver: TestEngine.Run                                           *)
(*   pc = "item"     at the head of the range loop over reqSequence.items  *)
(*   pc = "req"      at the head of the inner loop, about to test i        *)
(*   pc = "restore"  in restoreData                                        *)
(*   pc = "done"     returned after restoreData                            *)
(*   pc = "aborted"  returned on errCount > ErrLimit                       *)
(*   pc = "exited"   process ended by glog.Exitf                           *)
(*   pc = "panicked" ended in a run-time panic                             *)
(* The time an operation and the sleep of the rate controller take is the  *)
(* clock advancing (Tick).                                                 *)
(***************************************************************************)
CurItem == reqSequence[itemIdx]

\* mutant of skipsStats: every Destroy attempt is recorded
skipsStats_m(ty, s) == FALSE

\* Run, lines 284-291: a Destroy in the delete-exhausted state that did not set
\* LastDelete is not recorded
skipsStats(ty, s) ==
    ty = kRequestTypeDestroy /\ endOfDelete(s) /\ ~s.LastDelete

\* mutant of afterLastDelete: LastDelete left set
afterLastDelete_m(ty, s) == s

\* Run, lines 284-288: LastDelete is consumed
afterLastDelete(ty, s) ==
    IF ty = kRequestTypeDestroy /\ endOfDelete(s) /\ s.LastDelete
    THEN [s EXCEPT !.LastDelete = FALSE]
    ELSE s

\* Run, line 296: a failure counts toward the abort
countsError(s, err) == err # NoErr /\ s.numKeys > 0

\* mutant of tooManyErrors: the comparison off by one
tooManyErrors_m(ec) == ec >= ErrLimit

\* Run, line 299
tooManyErrors(ec) == ec > ErrLimit

\* restoreData, lines 239-243: the number of keys to create again
restoreCount(s) ==
    IF s.numKeys <= 0 \/ s.nextDelete <= 0 THEN 0 ELSE s.nextDelete

\* mutant of restoreKey: the offset of the read range
restoreKey_m(s, i) == NewRandomKey(s.offsetGet + i)

\* restoreData, line 251
restoreKey(s, i) == NewRandomKey(s.offsetDel + i)

\* the outer for loop starts the range loop again
RunRestart ==
    /\ driver = "engine" /\ pc = "item"
    /\ itemIdx > Len(reqSequence)
    /\ itemIdx' = 1
    /\ UNCHANGED <<driver, storeVars, reqSequence, pc, reqIdx, errCount, streak, stats,
                   movingStats, clientCalls, clientFailed, restoreLog,
                   clientSucceeded, chDone, wgDone,
                   rate, keygen>>

\* lines 271-274: a Create item is skipped in preloaded mode
RunSkipCreate ==
    /\ driver = "engine" /\ pc = "item"
    /\ itemIdx <= Len(reqSequence)
    /\ recStore.numKeys > 0 /\ CurItem.reqType = kRequestTypeCreate
    /\ itemIdx' = itemIdx + 1
    /\ UNCHANGED <<driver, storeVars, reqSequence, pc, reqIdx, errCount, streak, stats,
                   movingStats, clientCalls, clientFailed, restoreLog,
                   clientSucceeded, chDone, wgDone,
                   rate, keygen>>

\* mutant of RunEnterItem: Create items are entered in preloaded mode too
RunEnterItem_m ==
    /\ driver = "engine" /\ pc = "item"
    /\ itemIdx <= Len(reqSequence)
    /\ pc' = "req" /\ reqIdx' = 0
    /\ UNCHANGED <<driver, storeVars, reqSequence, itemIdx, errCount, streak, stats,
                   movingStats, clientCalls, clientFailed, restoreLog,
                   clientSucceeded, chDone, wgDone,
                   rate, keygen>>

\* the inner loop is entered for every other item
RunEnterItem ==
    /\ driver = "engine" /\ pc = "item"
    /\ itemIdx <= Len(reqSequence)
    /\ ~(recStore.numKeys > 0 /\ CurItem.reqType = kRequestTypeCreate)
    /\ pc' = "req" /\ reqIdx' = 0
    /\ UNCHANGED <<driver, storeVars, reqSequence, itemIdx, errCount, streak, stats,
                   movingStats, clientCalls, clientFailed, restoreLog,
                   clientSucceeded, chDone, wgDone,
                   rate, keygen>>

\* i < item.numRequests fails
RunLeaveItem ==
    /\ driver = "engine" /\ pc = "req"
    /\ reqIdx >= CurItem.numRequests
    /\ pc' = "item" /\ itemIdx' = itemIdx + 1
    /\ UNCHANGED <<driver, storeVars, reqSequence, reqIdx, errCount, streak, stats,
                   movingStats, clientCalls, clientFailed, restoreLog,
                   clientSucceeded, chDone, wgDone,
                   rate, keygen>>

\* mutant of RunCancelled: Run returns without the restoration pass
RunCancelled_m ==
    /\ driver = "engine" /\ pc = "req"
    /\ reqIdx < CurItem.numRequests
    /\ chDone
    /\ pc' = "done" /\ wgDone' = wgDone + 1
    /\ UNCHANGED <<driver, storeVars, reqSequence, itemIdx, reqIdx, errCount, streak, stats,
                   movingStats, clientCalls, clientFailed, restoreLog,
                   clientSucceeded, chDone, rate,
                   keygen>>

\* select: case <-chDone
RunCancelled ==
    /\ driver = "engine" /\ pc = "req"
    /\ reqIdx < CurItem.numRequests
    /\ chDone
    /\ pc' = "restore"
    /\ UNCHANGED <<driver, storeVars, reqSequence, itemIdx, reqIdx, errCount, streak, stats,
                   movingStats, clientCalls, clientFailed, restoreLog,
                   clientSucceeded, chDone, wgDone,
                   rate, keygen>>

\* select: default, lines 281-315
RunInvoke ==
    /\ driver = "engine" /\ pc = "req"
    /\ reqIdx < CurItem.numRequests
    /\ ~chDone
    /\ GetNumRequests(stats) < MaxRequests
    /\ invokeKind(CurItem.reqType) = "call"
    /\ \E o \in invokeFuncs(CurItem.reqType, recStore, now, uuidSeq) :
          LET ty == CurItem.reqType
              ec == IF countsError(o.s, o.err) THEN errCount + 1 ELSE errCount
          IN  /\ recStore' = afterLastDelete(ty, o.s)
              /\ now' = o.t
              /\ uuidSeq' = o.u
              /\ clientCalls' = IF o.called THEN [clientCalls EXCEPT ![ty] = @ + 1]
                                ELSE clientCalls
              /\ clientFailed' = IF o.called /\ o.cerr # NoErr
                                 THEN [clientFailed EXCEPT ![ty] = @ + 1]
                                 ELSE clientFailed
              /\ clientSucceeded' = (clientSucceeded \/ (o.called /\ o.cerr = NoErr))
              /\ IF skipsStats(ty, o.s)
                 THEN /\ reqIdx' = reqIdx + 1
                      /\ UNCHANGED <<stats, movingStats, errCount, streak, pc, wgDone>>
                 ELSE /\ stats' = Put(stats, ty, o.err)
                      /\ movingStats' = Put(movingStats, ty, o.err)
                      /\ errCount' = ec
                      /\ streak' = IF o.err # NoErr THEN streak + 1 ELSE 0
                      /\ IF countsError(o.s, o.err) /\ tooManyErrors(ec)
                         THEN pc' = "aborted" /\ wgDone' = wgDone + 1 /\ reqIdx' = reqIdx
                         ELSE pc' = pc /\ wgDone' = wgDone /\ reqIdx' = reqIdx + 1
    /\ UNCHANGED <<driver, lastCall, taken, reqSequence, itemIdx, restoreLog, chDone, rate, keygen>>

\* invoke, lines 419-421: glog.Exitf ends the process
RunExit ==
    /\ driver = "engine" /\ pc = "req"
    /\ reqIdx < CurItem.numRequests
    /\ ~chDone
    /\ invokeKind(CurItem.reqType) = "exit"
    /\ pc' = "exited"
    /\ UNCHANGED <<driver, storeVars, reqSequence, itemIdx, reqIdx, errCount, streak, stats,
                   movingStats, clientCalls, clientFailed, restoreLog,
                   clientSucceeded, chDone, wgDone,
                   rate, keygen>>

\* invoke, line 422: the index is out of range; the deferred wg.Done() runs
RunPanic ==
    /\ driver = "engine" /\ pc = "req"
    /\ reqIdx < CurItem.numRequests
    /\ ~chDone
    /\ invokeKind(CurItem.reqType) = "panic"
    /\ pc' = "panicked" /\ wgDone' = wgDone + 1
    /\ UNCHANGED <<driver, storeVars, reqSequence, itemIdx, reqIdx, errCount, streak, stats,
                   movingStats, clientCalls, clientFailed, restoreLog, clientSucceeded, chDone,
                   rate, keygen>>

\* restoreData, lines 247-261: one iteration, i = Len(restoreLog)
RestoreCreate ==
    /\ driver = "engine" /\ pc = "restore"
    /\ Len(restoreLog) < restoreCount(recStore)
    /\ \E cerr \in ClientErrs :
          /\ restoreLog' = Append(restoreLog,
                                  [key |-> restoreKey(recStore, Len(restoreLog)),
                                   failed |-> cerr # NoErr])
          /\ stats' = Put(stats, kRequestTypeCreate, cerr)
          /\ movingStats' = Put(movingStats, kRequestTypeCreate, cerr)
          /\ clientSucceeded' = (clientSucceeded \/ cerr = NoErr)
    /\ UNCHANGED <<driver, storeVars, reqSequence, pc, itemIdx, reqIdx, errCount, streak,
                   clientCalls, clientFailed, chDone, wgDone, rate, keygen>>

\* restoreData returns, and Run with it
RestoreReturn ==
    /\ driver = "engine" /\ pc = "restore"
    /\ Len(restoreLog) >= restoreCount(recStore)
    /\ pc' = "done" /\ wgDone' = wgDone + 1
    /\ UNCHANGED <<driver, storeVars, reqSequence, itemIdx, reqIdx, errCount, streak, stats,
                   movingStats, clientCalls, clientFailed, restoreLog, clientSucceeded, chDone,
                   rate, keygen>>

\* the caller makes a value available on chDone
Cancel ==
    /\ driver = "engine" /\ pc \in {"item", "req"}
    /\ ~chDone
    /\ chDone' = TRUE
    /\ UNCHANGED <<driver, storeVars, reqSequence, pc, itemIdx, reqIdx, errCount, streak, stats,
                   movingStats, clientCalls, clientFailed, restoreLog, clientSucceeded, wgDone,
                   rate, keygen>>

RunStep ==
    \/ RunRestart \/ RunSkipCreate \/ RunEnterItem \/ RunLeaveItem
    \/ RunCancelled \/ RunInvoke \/ RunExit \/ RunPanic
    \/ RestoreCreate \/ RestoreReturn

(***************************************************************************)
(* Rate driver                                                             *)
(***************************************************************************)
CheckSpeed ==
    /\ driver = "rate"
    /\ ~rate.done
    /\ LET d == checkSpeedDelayIfNeeded(rate.num, rate.r, rate.dur)
       IN  rate' = [rate EXCEPT !.done = TRUE, !.sleeps = d.sleeps, !.delta = d.delta]
    /\ UNCHANGED <<driver, storeVars, engineVars, keygen>>

(***************************************************************************)
(* Key driver                                                              *)
(***************************************************************************)
KeyGen ==
    /\ driver = "key"
    /\ ~keygen.done
    /\ keygen' = [keygen EXCEPT !.done = TRUE,
                                !.ki = NewRandomKey(keygen.i),
                                !.kj = NewRandomKey(keygen.j),
                                !.kt = newTestKey(keygen.u, keygen.n11)]
    /\ UNCHANGED <<driver, storeVars, engineVars, rate>>

Next ==
    \/ Tick
    \/ StoreAdd \/ StoreGet \/ StoreTake
    \/ RunRestart \/ RunSkipCreate \/ RunEnterItem \/ RunLeaveItem
    \/ RunCancelled \/ RunInvoke \/ RunExit \/ RunPanic
    \/ RestoreCreate \/ RestoreReturn
    \/ Cancel
    \/ CheckSpeed
    \/ KeyGen

Spec == Init /\ [][Next]_vars

\* Run is a goroutine the scheduler keeps running
LiveSpec == Spec /\ WF_vars(RunStep)

(***************************************************************************)
(* Properties                                                              *)
(***************************************************************************)
Stopped == pc \in {"done", "aborted", "exited", "panicked"}

\* the number of failed Create calls among the first n of the restoration pass
RECURSIVE FailedCreates(_)
FailedCreates(n) ==
    IF n = 0 THEN 0
    ELSE FailedCreates(n - 1) + (IF restoreLog[n].failed THEN 1 ELSE 0)

\* the number of keys the restoration pass has to create: nextDelete in preloaded
\* mode, none in dynamic mode
Deleted == IF recStore.numKeys > 0 THEN recStore.nextDelete ELSE 0

\* C1: the restoration pass runs only after Run has observed the cancellation
\* signal; it issues one Create per index i in [0, nextDelete), in increasing
\* order of i, with key NewRandomKey(offsetDel + i), whether or not earlier
\* Creates failed, and none in dynamic mode or with nextDelete = 0; each is
\* recorded in both statistics (in preloaded mode they are the only Creates).
C1_Restoration ==
    driver = "engine" =>
        /\ pc \notin {"restore", "done"} => restoreLog = <<>>
        /\ Len(restoreLog) <= Deleted
        /\ pc = "done" => Len(restoreLog) = Deleted
        /\ \A i \in 1 .. Len(restoreLog) :
              restoreLog[i].key = NewRandomKey(recStore.offsetDel + (i - 1))
        /\ recStore.numKeys > 0 =>
              /\ stats[kRequestTypeCreate] =
                     [n |-> Len(restoreLog), errs |-> FailedCreates(Len(restoreLog))]
              /\ movingStats[kRequestTypeCreate] = stats[kRequestTypeCreate]

\* Run has returned after restoring three deleted keys, the first Create having
\* failed and the last succeeded
C1_Witness ==
    /\ driver = "engine" /\ pc = "done"
    /\ recStore.numKeys > 0 /\ recStore.nextDelete = 3 /\ recStore.offsetDel = 7
    /\ Len(restoreLog) = 3
    /\ restoreLog[1].failed /\ ~restoreLog[3].failed

\* C2 as stated: with every client operation failing and no cancellation, at most
\* ErrLimit + 1 failures are ever recorded, Run has stopped once that many are
\* recorded, in either store mode, and the abort issues no restoration Create.
C2_Original ==
    (driver = "engine" /\ ~clientSucceeded /\ ~chDone) =>
        /\ NumErrors(stats) <= ErrLimit + 1
        /\ NumErrors(stats) = ErrLimit + 1 => pc = "aborted"
        /\ pc = "aborted" => NumErrors(stats) = ErrLimit + 1 /\ restoreLog = <<>>

\* C2 amended: with every client operation failing, in preloaded mode Run is
\* still running with at most ErrLimit failures recorded and aborts with exactly
\* ErrLimit + 1 recorded and no restoration Create issued; in dynamic mode it
\* never aborts.
C2_Breaker ==
    (driver = "engine" /\ ~clientSucceeded) =>
        /\ pc = "aborted" =>
              /\ recStore.numKeys > 0
              /\ NumErrors(stats) = ErrLimit + 1
              /\ NumErrors(movingStats) = ErrLimit + 1
              /\ restoreLog = <<>>
        /\ (recStore.numKeys > 0 /\ pc \in {"item", "req"}) => NumErrors(stats) <= ErrLimit

\* Run has aborted on a client that failed every call
C2_Witness ==
    /\ driver = "engine" /\ pc = "aborted" /\ ~clientSucceeded
    /\ NumErrors(stats) = ErrLimit + 1
    /\ clientCalls[kRequestTypeGet] + clientCalls[kRequestTypeSet] = ErrLimit + 1

\* C3 as stated: once a value is available on chDone, Run eventually returns
\* through the restoration pass, whatever the store mode and the sequence.
C3_Original == (driver = "engine" /\ chDone) ~> (pc = "done")

\* C4: nextDelete is at most min(numKeys, MaxDeletes) in every state, and no
\* step decreases it.
C4_NextDeleteBound ==
    /\ [](recStore.nextDelete <= Min(recStore.numKeys, MaxDeletes))
    /\ [][recStore'.nextDelete >= recStore.nextDelete]_vars

\* a Take has failed on a store of more than MaxDeletes keys with the cursor at
\* MaxDeletes
C4_Witness ==
    /\ driver = "store" /\ recStore.numKeys > MaxDeletes
    /\ recStore.nextDelete = MaxDeletes
    /\ lastCall.op = "Take" /\ lastCall.err # NoErr

\* C5: on a preloaded store of K keys the successful Takes are the first
\* min(K, MaxDeletes) ones: a Take succeeds exactly when fewer have succeeded,
\* the i-th returns NewRandomKey(offsetDel + i - 1), endOfDelete() holds exactly
\* from the last of them on, and a failed Take leaves nextDelete as it was.
C5_PreloadedTake ==
    (driver = "store" /\ recStore.numKeys > 0) =>
        LET limit == Min(recStore.numKeys, MaxDeletes)
        IN  /\ Len(taken) = recStore.nextDelete
            /\ Len(taken) <= limit
            /\ \A i \in 1 .. Len(taken) :
                  taken[i] = NewRandomKey(recStore.offsetDel + (i - 1))
            /\ endOfDelete(recStore) <=> Len(taken) = limit
            /\ lastCall.op = "Take" =>
                  /\ lastCall.err = NoErr <=> lastCall.pre.nextDelete < limit
                  /\ endOfDelete(lastCall.pre) <=> lastCall.pre.nextDelete = limit
                  /\ lastCall.err = NoErr =>
                        /\ lastCall.rec.key = taken[Len(taken)]
                        /\ recStore.nextDelete = lastCall.pre.nextDelete + 1
                  /\ lastCall.err # NoErr =>
                        /\ recStore.nextDelete = lastCall.pre.nextDelete
                        /\ Len(taken) = limit

\* MaxDeletes Takes have succeeded on a store of more keys, and the next failed
C5_Witness ==
    /\ driver = "store" /\ recStore.numKeys > MaxDeletes /\ recStore.offsetDel = 7
    /\ Len(taken) = MaxDeletes
    /\ lastCall.op = "Take" /\ lastCall.err # NoErr
    /\ lastCall.pre.nextDelete = MaxDeletes

\* the store is delete-exhausted
Exhausted(s) == s.numKeys > 0 /\ s.nextDelete >= Min(s.numKeys, MaxDeletes)

\* C6: a Take turns LastDelete on exactly when it succeeds and leaves the store
\* delete-exhausted, and never turns it off; Get and Add leave it alone; it is
\* never set in dynamic mode; and between two iterations of Run's loop, so
\* whenever Run polls chDone, it is false.
C6_LastDelete ==
    /\ recStore.numKeys = 0 => ~recStore.LastDelete
    /\ (driver = "store" /\ lastCall.op = "Take") =>
          /\ lastCall.pre.LastDelete => recStore.LastDelete
          /\ ~lastCall.pre.LastDelete =>
                (recStore.LastDelete <=> (lastCall.err = NoErr /\ Exhausted(recStore)))
    /\ (driver = "store" /\ lastCall.op \in {"Get", "Add"}) =>
          recStore.LastDelete = lastCall.pre.LastDelete
    /\ driver = "engine" => ~recStore.LastDelete

\* Run is about to poll chDone after the Destroy that exhausted the delete range
\* was issued and recorded
C6_Witness ==
    /\ driver = "engine" /\ pc = "req" /\ CurItem.reqType = kRequestTypeDestroy
    /\ Exhausted(recStore) /\ recStore.nextDelete = MaxDeletes
    /\ stats[kRequestTypeDestroy].n = MaxDeletes
    /\ clientCalls[kRequestTypeDestroy] = MaxDeletes
    /\ ~recStore.LastDelete

\* creationTime + timeToLive < t, for a record that has a context
ExpiredAt(rec, t) ==
    rec.ctx.present /\ rec.ctx.creationTime + rec.ctx.timeToLive < t

InSeq(x, seq) == \E i \in 1 .. Len(seq) : seq[i] = x

\* C7: in dynamic mode a record Get or Take returns is not expired when the call
\* returns; each record they discard as expired has a context, is expired and is
\* no longer in the collection; every record a Get removes is expired; and a Get
\* on a store whose records are all expired fails and leaves the store empty.
C7_Expiry ==
    (driver = "store" /\ lastCall.op \in {"Get", "Take"} /\ lastCall.pre.numKeys = 0) =>
        /\ lastCall.err = NoErr => ~ExpiredAt(lastCall.rec, lastCall.t)
        /\ \A i \in 1 .. Len(lastCall.discarded) :
              LET d == lastCall.discarded[i]
              IN  /\ ExpiredAt(d, lastCall.t)
                  /\ InSeq(d, lastCall.pre.records)
                  /\ ~InSeq(d, recStore.records)
        /\ \A i \in 1 .. Len(lastCall.pre.records) :
              LET rec == lastCall.pre.records[i]
              IN  (~rec.ctx.present /\ ~(lastCall.op = "Take" /\ lastCall.rec = rec))
                      => InSeq(rec, recStore.records)
        /\ lastCall.op = "Get" =>
              \A i \in 1 .. Len(lastCall.pre.records) :
                  LET rec == lastCall.pre.records[i]
                  IN  InSeq(rec, recStore.records) \/ ExpiredAt(rec, lastCall.t)
        /\ (/\ lastCall.op = "Get"
            /\ \A i \in 1 .. Len(lastCall.pre.records) :
                  ExpiredAt(lastCall.pre.records[i], lastCall.preNow))
              => (lastCall.err # NoErr /\ empty(recStore))

\* a Get on a store of two expired records has discarded both and failed
C7_Witness ==
    /\ driver = "store" /\ lastCall.op = "Get" /\ lastCall.pre.numKeys = 0
    /\ Len(lastCall.pre.records) = 2 /\ Len(lastCall.discarded) = 2
    /\ lastCall.err # NoErr /\ empty(recStore)

\* C8: in dynamic mode a successful Take removes the returned record and the
\* expired records it discarded, and nothing else; a key a Take returned is not
\* in the collection any more and is returned by no later Take or Get; on a
\* store of one unexpired record Get and Take succeed with that record, and the
\* store is empty after the Take.
C8_TakeRemoves ==
    (driver = "store" /\ recStore.numKeys = 0) =>
        /\ \A i, j \in 1 .. Len(taken) : i # j => taken[i] # taken[j]
        /\ \A i \in 1 .. Len(taken) :
              \A j \in 1 .. Len(recStore.records) : recStore.records[j].key # taken[i]
        /\ (lastCall.op = "Get" /\ lastCall.err = NoErr) => ~InSeq(lastCall.rec.key, taken)
        /\ (lastCall.op = "Take" /\ lastCall.err = NoErr) =>
              /\ InSeq(lastCall.rec, lastCall.pre.records)
              /\ ~InSeq(lastCall.rec, recStore.records)
              /\ Len(recStore.records) =
                     Len(lastCall.pre.records) - 1 - Len(lastCall.discarded)
              /\ \A i \in 1 .. Len(recStore.records) :
                    InSeq(recStore.records[i], lastCall.pre.records)
              /\ \A i \in 1 .. Len(lastCall.pre.records) :
                    LET rec == lastCall.pre.records[i]
                    IN  \/ InSeq(rec, recStore.records)
                        \/ rec = lastCall.rec
                        \/ InSeq(rec, lastCall.discarded)
        /\ (/\ lastCall.op \in {"Get", "Take"}
            /\ Len(lastCall.pre.records) = 1
            /\ ~ExpiredAt(lastCall.pre.records[1], lastCall.t)) =>
              /\ lastCall.err = NoErr
              /\ lastCall.rec = lastCall.pre.records[1]
              /\ lastCall.op = "Take" => empty(recStore)

\* a Take on a store of one unexpired record has returned it and left the store
\* empty
C8_Witness ==
    /\ driver = "store" /\ recStore.numKeys = 0
    /\ lastCall.op = "Take" /\ lastCall.err = NoErr
    /\ Len(lastCall.pre.records) = 1 /\ lastCall.rec.ctx.present
    /\ empty(recStore)

\* C9: no step changes numKeys, offsetDel or offsetGet; an Add on a preloaded
\* store leaves the store as it was, with no record and not empty(); an Add on
\* a dynamic store appends the given record and changes nothing else.
C9_AddFrame ==
    /\ [][/\ recStore'.numKeys = recStore.numKeys
          /\ recStore'.offsetDel = recStore.offsetDel
          /\ recStore'.offsetGet = recStore.offsetGet]_vars
    /\ []((driver = "store" /\ lastCall.op = "Add") =>
            IF lastCall.pre.numKeys > 0
            THEN /\ recStore = lastCall.pre
                 /\ recStore.records = <<>>
                 /\ ~empty(recStore)
            ELSE recStore = [lastCall.pre EXCEPT
                                !.records = lastCall.pre.records \o <<lastCall.arg>>])

\* an Add has been made on a preloaded store
C9_Witness ==
    /\ driver = "store" /\ lastCall.op = "Add"
    /\ lastCall.pre.numKeys > 0 /\ lastCall.pre.nextDelete > 0

\* C10 as stated: with k = num >= MinRequests the sleep is exactly k/r minus the
\* elapsed time when that is positive (in ticks: delta * r = k * Second - dur * r),
\* there is no sleep when the elapsed time is at least k/r, and none when
\* k < MinRequests.
C10_Original ==
    (driver = "rate" /\ rate.done) =>
        /\ rate.num < MinRequests => ~rate.sleeps
        /\ (rate.num >= MinRequests /\ rate.dur * rate.r < rate.num * Second) =>
              (rate.sleeps /\ rate.delta * rate.r = rate.num * Second - rate.dur * rate.r)
        /\ (rate.num >= MinRequests /\ rate.dur * rate.r >= rate.num * Second) =>
              ~rate.sleeps

\* C10 amended: the expected duration is k times the integer quotient of one
\* second by r; the sleep is exactly that minus the elapsed time when positive,
\* there is no sleep (never a negative one) otherwise, in particular whenever the
\* elapsed time is at least k/r, and none when k < MinRequests.
C10_Delay ==
    (driver = "rate" /\ rate.done) =>
        LET expected == rate.num * (Second \div rate.r)
        IN  /\ rate.num < MinRequests => ~rate.sleeps
            /\ (rate.num >= MinRequests /\ rate.dur < expected) =>
                  (rate.sleeps /\ rate.delta = expected - rate.dur /\ rate.delta > 0)
            /\ (rate.num >= MinRequests /\ rate.dur >= expected) => ~rate.sleeps
            /\ (rate.num >= MinRequests /\ rate.dur * rate.r >= rate.num * Second) =>
                  ~rate.sleeps
            /\ ~rate.sleeps => rate.delta = 0

\* the controller was applied with MinRequests requests recorded in less than the
\* expected duration, at a rate that does not divide the second, and slept
C10_Witness ==
    /\ driver = "rate" /\ rate.done
    /\ rate.num = MinRequests /\ Second % rate.r # 0
    /\ rate.dur > 0 /\ rate.dur < rate.num * (Second \div rate.r)
    /\ rate.sleeps /\ rate.delta = rate.num * (Second \div rate.r) - rate.dur

\* C11: NewRandomKey gives equal keys for equal indices and different keys for
\* different indices of 0 .. MaxIndex; byte 11 of every key it builds is 0, byte 11
\* of every key newTestKey builds has bit 0x2 set, so the two never coincide.
C11_KeysDistinct ==
    (driver = "key" /\ keygen.done) =>
        /\ Len(keygen.ki) = 16 /\ Len(keygen.kt) = 16
        /\ (keygen.ki = keygen.kj) <=> (keygen.i = keygen.j)
        /\ keygen.ki[12] = 0 /\ keygen.kj[12] = 0
        /\ (keygen.kt[12] \div 2) % 2 = 1
        /\ keygen.ki # keygen.kt /\ keygen.kj # keygen.kt

\* two different indices and a UUID whose byte 11 had bit 0x2 clear, all three built
C11_Witness ==
    /\ driver = "key" /\ keygen.done
    /\ keygen.i # keygen.j /\ keygen.n11 = 0
    /\ keygen.ki # keygen.kj

\* a Get call on a preloaded store has returned
PreloadedGet == driver = "store" /\ lastCall.op = "Get" /\ lastCall.pre.numKeys > 0

\* What a preloaded Get returned, for a sampling width n: no error, the key
\* NewRandomKey(offsetGet + k) with k = currGet drawn over the width n.
GetOver(n) ==
    /\ lastCall.err = NoErr
    /\ lastCall.rec.key = NewRandomKey(lastCall.pre.offsetGet + recStore.currGet)
    /\ GetRands(lastCall.pre) = 0 .. (n - 1)
    /\ recStore.currGet \in 0 .. (n - 1)
    /\ recStore.currGet < lastCall.pre.numKeys

\* C12 as stated: Get on a preloaded store succeeds and returns
\* NewRandomKey(offsetGet + k), k drawn over the width numKeys when numKeys does not
\* exceed MaxDeletes and over numKeys / 4 only when numKeys exceeds MaxDeletes.
C12_Original ==
    PreloadedGet =>
        GetOver(IF lastCall.pre.numKeys > MaxDeletes
                THEN lastCall.pre.numKeys \div 4 ELSE lastCall.pre.numKeys)

\* C12: Get on a preloaded store succeeds and returns NewRandomKey(offsetGet + k),
\* k drawn over the width numKeys when numKeys is below MaxDeletes and over
\* numKeys / 4 when numKeys is MaxDeletes or more; k is below numKeys.
C12_PreloadedGet ==
    PreloadedGet =>
        GetOver(IF lastCall.pre.numKeys >= MaxDeletes
                THEN lastCall.pre.numKeys \div 4 ELSE lastCall.pre.numKeys)

\* a Get on a store of exactly MaxDeletes keys has returned
C12_Witness == PreloadedGet /\ lastCall.pre.numKeys = MaxDeletes

\* C13 as stated, in preloaded mode where the breaker is armed: Run has aborted
\* exactly when more than ErrLimit recorded operations in a row have failed.
C13_Original ==
    (driver = "engine" /\ recStore.numKeys > 0) =>
        ((pc = "aborted") <=> (streak > ErrLimit))

\* C14: in preloaded mode, between two iterations of Run's loop and after Run has
\* stopped, the Destroy operations recorded in the statistics, the Destroy calls
\* made on the client and nextDelete are the same number: the delete that exhausts
\* the range is recorded once, a Destroy attempted after it is neither sent nor
\* recorded.
C14_DestroyCount ==
    (driver = "engine" /\ recStore.numKeys > 0) =>
        /\ stats[kRequestTypeDestroy].n = recStore.nextDelete
        /\ movingStats[kRequestTypeDestroy].n = recStore.nextDelete
        /\ clientCalls[kRequestTypeDestroy] = recStore.nextDelete

\* the second Destroy of a single item of two, attempted on a store of one key
\* that the first has deleted
C14_Witness ==
    /\ driver = "engine" /\ recStore.numKeys = 1 /\ Exhausted(recStore)
    /\ reqSequence = <<Item(kRequestTypeDestroy, 2)>>
    /\ pc = "req" /\ reqIdx = 2
    /\ stats[kRequestTypeDestroy].n = 1

\* Run has returned or is unwinding, so its deferred wg.Done() has run
Returned == pc \in {"done", "aborted", "panicked"}

\* the workload operations recorded so far
Workload == [ty \in RequestTypes \ {kRequestTypeCreate} |-> stats[ty]]

\* C15: wg.Done() has been called once when Run has returned and not before; Run
\* observes the cancellation at the head of an iteration, with no operation in
\* progress; from then on no workload operation is issued or recorded and the
\* store is left alone; and on that path Run returns only when the restoration
\* pass has issued its last Create.
C15_Completion ==
    /\ [](driver = "engine" =>
            /\ wgDone = (IF Returned THEN 1 ELSE 0)
            /\ pc \in {"restore", "done"} => chDone
            /\ pc = "done" => Len(restoreLog) = Deleted)
    /\ [][driver = "engine" =>
            /\ (pc # "restore" /\ pc' = "restore") =>
                   (pc = "req" /\ UNCHANGED <<recStore, stats, clientCalls>>)
            /\ pc \in {"restore", "done"} =>
                   (pc' \in {"restore", "done"}
                    /\ UNCHANGED <<recStore, clientCalls, clientFailed, Workload>>)
            /\ Returned => UNCHANGED <<pc, wgDone, stats, restoreLog>>]_vars

\* Run has returned after a restoration pass of two Creates
C15_Witness ==
    /\ driver = "engine" /\ pc = "done" /\ wgDone = 1
    /\ Len(restoreLog) = 2

\* C16: in preloaded mode no Create is issued on the client and none is recorded
\* while Run has not observed the cancellation, whatever the sequence; the Creates
\* recorded at any time are those of the restoration pass.
C16_NoCreate ==
    (driver = "engine" /\ recStore.numKeys > 0) =>
        /\ clientCalls[kRequestTypeCreate] = 0
        /\ stats[kRequestTypeCreate].n = Len(restoreLog)
        /\ movingStats[kRequestTypeCreate].n = Len(restoreLog)
        /\ pc \notin {"restore", "done"} => stats[kRequestTypeCreate].n = 0

\* a sequence that starts with a Create item has run past it to a Get and a
\* Destroy, and the restoration pass has created the deleted key again
C16_Witness ==
    /\ driver = "engine" /\ recStore.numKeys > 0
    /\ reqSequence[1].reqType = kRequestTypeCreate /\ reqSequence[1].numRequests > 0
    /\ stats[kRequestTypeGet].n > 0
    /\ pc = "done" /\ Len(restoreLog) = 1

\* a Get or a Take call on the store has returned
Returning == driver = "store" /\ lastCall.op \in {"Get", "Take"}

\* C17: a Get or a Take returns after at most Len(records) + 1 iterations of its
\* loop.  In dynamic mode every iteration but a last successful one discards one
\* record, and the collection shrinks by what was discarded and taken; in
\* preloaded mode nothing is discarded and the call returns on its first iteration
\* or, for a Take on an exhausted range, without one.
C17_Terminates ==
    Returning =>
        LET ok == IF lastCall.err = NoErr THEN 1 ELSE 0
            gone == Len(lastCall.discarded) + (IF lastCall.op = "Take" THEN ok ELSE 0)
        IN  /\ lastCall.iters <= Len(lastCall.pre.records) + 1
            /\ lastCall.iters = Len(lastCall.discarded) + ok
            /\ lastCall.pre.numKeys = 0 =>
                   Len(recStore.records) = Len(lastCall.pre.records) - gone
            /\ lastCall.pre.numKeys > 0 =>
                   (lastCall.discarded = <<>> /\ recStore.records = lastCall.pre.records)
            /\ lastCall.err # NoErr => (empty(recStore) \/ endOfDelete(recStore))

\* a Take that discarded an expired record and returned the next one
C17_Witness ==
    /\ Returning /\ lastCall.op = "Take"
    /\ lastCall.iters = 2 /\ lastCall.err = NoErr

\* the request types that need a key from the RecordStore
KeyedTypes ==
    {kRequestTypeGet, kRequestTypeUpdate, kRequestTypeSet, kRequestTypeDestroy}

\* C18 as stated: the failures recorded for Get, Update, Set and Destroy are the
\* calls on the store client that returned an error, and nothing else counts
\* toward the abort: an operation for which the RecordStore had no key is not
\* among them.
C18_Original ==
    driver = "engine" =>
        /\ \A ty \in KeyedTypes :
               /\ stats[ty].errs = clientFailed[ty]
               /\ movingStats[ty].errs = clientFailed[ty]
        /\ errCount <= clientFailed[kRequestTypeCreate] + clientFailed[kRequestTypeGet]
                       + clientFailed[kRequestTypeUpdate] + clientFailed[kRequestTypeSet]
                       + clientFailed[kRequestTypeDestroy]

\* C19 as stated: invoke of one of the five known types calls a handler, so only
\* those types are ever recorded or sent to the client; invoke of any other type
\* ends in the fatal exit, never in a lookup in the handler table (which, for a
\* type the table has no entry for, is the index out of range) and never by
\* returning to Run.
C19_Original ==
    driver = "engine" =>
        /\ pc # "panicked"
        /\ pc = "exited" => CurItem.reqType \notin RequestTypes
        /\ (pc = "req" /\ CurItem.reqType \notin RequestTypes) => reqIdx = 0
        /\ \A ty \in RequestTypes \ {kRequestTypeCreate} :
               stats[ty].n > 0 => \E i \in 1 .. Len(reqSequence) : reqSequence[i].reqType = ty

\* the records of seq not expired at clock t, in order
RECURSIVE Unexpired(_, _)
Unexpired(seq, t) ==
    IF seq = <<>> THEN <<>>
    ELSE IF ExpiredAt(Head(seq), t) THEN Unexpired(Tail(seq), t)
    ELSE <<Head(seq)>> \o Unexpired(Tail(seq), t)

\* C20: a Get changes no field of a preloaded store but currGet; in dynamic mode
\* it changes nothing but the collection, from which it removes expired records
\* only: the records unexpired when the call returns are the same before and after
\* it, in the same order.
C20_GetFrame ==
    (driver = "store" /\ lastCall.op = "Get") =>
        /\ lastCall.pre.numKeys > 0 =>
               recStore = [lastCall.pre EXCEPT !.currGet = recStore.currGet]
        /\ lastCall.pre.numKeys = 0 =>
               /\ recStore = [lastCall.pre EXCEPT !.records = recStore.records]
               /\ Unexpired(recStore.records, lastCall.t)
                      = Unexpired(lastCall.pre.records, lastCall.t)
               /\ lastCall.err = NoErr => InSeq(lastCall.rec, recStore.records)

\* a Get of a dynamic store that discarded an expired record and returned one that
\* is not
C20_Witness ==
    /\ driver = "store" /\ lastCall.op = "Get" /\ lastCall.err = NoErr
    /\ lastCall.pre.numKeys = 0 /\ Len(lastCall.discarded) = 1
    /\ Len(recStore.records) = 1

====
